---- MODULE Spec2Model ----
(***************************************************************************)
(* hashub-vector-js: the client's constructor and operations, the retrying *)
(* request executor (HashubVector.makeRequest) and the error classifier    *)
(* (HashubVector.handleError, the axios response interceptor), with the    *)
(* error classes of types.ts.                                              *)
(*                                                                         *)
(* One call of a client operation is modelled step by step: the call       *)
(* enters makeRequest, each HTTP attempt completes with a response or a    *)
(* failure, a failure is classified by handleError before makeRequest's    *)
(* catch block sees it, and the backoff timer separates two attempts.      *)
(***************************************************************************)
EXTENDS Integers, Sequences, FiniteSets, TLC

VARIABLES
    config,       \* this.config (the fields the executor reads)
    pc,           \* position of the call: idle, awaitResponse, sleeping, returned, raised
    attempt,      \* makeRequest's loop counter
    lastError,    \* makeRequest's lastError
    requests,     \* number of this.client.request calls issued by the call
    slept,        \* the delays (ms) of the backoff timers the call has set, in order
    history,      \* what the transport delivered for each completed attempt, in order
    result,       \* the value the call returned
    thrown,       \* the value the call threw
    input,        \* the config object the constructor was called with
    client,       \* this.client: the defaults of the axios instance
    op,           \* the operation the call is of, with its arguments
    args,         \* makeRequest's parameters: method, endpoint, data, config.params
    sent,         \* the requests the call has issued, in order
    other         \* the other in-flight call of the client, while this one runs

vars == <<config, pc, attempt, lastError, requests, slept, history, result, thrown,
          input, client, op, args, sent, other>>

\* the variables of one invocation: the locals of its async functions and what
\* the model records of it
callVars == <<pc, attempt, lastError, requests, slept, history, result, thrown,
              op, args, sent>>

----------------------------------------------------------------------------
(* Bounds of the model *)

\* largest maxRetries a client is constructed with
MaxRetriesBound == 4

----------------------------------------------------------------------------
(* Values *)

\* an absent (undefined) number: HashubVectorError.status, RateLimitError.retryAfter
NoStatus == -1
NoRetryAfter == -1
\* parseInt's NaN
NaN == -2

\* the constructor's default maxRetries and timeout (ms)
DefaultMaxRetries == 3
DefaultTimeout == 30000

\* a number passed as undefined
UndefinedNumber == -1

\* Math.pow(2, attempt) * 1000: the base of the backoff, in ms
BaseDelayMs == 1000

\* response.data of a failed response: "" stands for an absent (or empty, equally
\* falsy) field; present = FALSE is a response without a body
NoData == [present |-> FALSE, message |-> "", error |-> ""]

DataSet ==
    {NoData} \cup
    [present : {TRUE}, message : {"", "bad key"}, error : {"", "denied"}]

\* value of the retry-after header as a sequence of characters; <<>> is an
\* absent (or empty, equally falsy) header
RetryAfterHeaders == {<<>>, <<"3", "0">>, <<"0">>, <<"7", "s">>, <<"W", "e", "d">>}

\* the HTTP statuses of failed responses the model draws from
StatusSet == {304, 400, 401, 402, 403, 404, 422, 429, 500, 501, 502, 503, 504}

\* error.code: the four codes handleError tests, "" for an absent code, and one
\* code it does not test (axios' code of a rejected 4xx response)
TransportCodes ==
    {"", "ECONNABORTED", "ETIMEDOUT", "ENOTFOUND", "ECONNREFUSED", "ERR_BAD_REQUEST"}

\* the error object axios rejects with, as handleError reads it:
\*   code, message, response (hasResponse), response.status, response.data,
\*   response.headers (hasHeaders), response.headers['retry-after']
NoResponse(code, message) ==
    [message |-> message, code |-> code, hasResponse |-> FALSE, status |-> NoStatus,
     data |-> NoData, hasHeaders |-> FALSE, retryAfterHeader |-> <<>>]

HttpFailure(code, status, data, hasHeaders, hdr) ==
    [message |-> "Request failed", code |-> code, hasResponse |-> TRUE,
     status |-> status, data |-> data, hasHeaders |-> hasHeaders,
     retryAfterHeader |-> hdr]

\* the errors axios rejects with: without a response, or with a response, which
\* always carries a headers object
AxiosFailures ==
    {NoResponse(c, m) : c \in TransportCodes, m \in {"", "socket hang up"}}
    \cup {HttpFailure(c, s, d, TRUE, h) :
            c \in TransportCodes, s \in StatusSet, d \in DataSet, h \in RetryAfterHeaders}

\* the failures the executor's attempts end with (a part of AxiosFailures): a
\* transport failure without a response, or a failed response
AttemptFailures ==
    {NoResponse(c, "socket hang up") : c \in {"", "ECONNABORTED", "ECONNREFUSED"}}
    \cup {HttpFailure("", s, [present |-> TRUE, message |-> "bad key", error |-> ""],
                      TRUE, <<>>) : s \in StatusSet}
    \cup {HttpFailure("", 429, [present |-> TRUE, message |-> "", error |-> "denied"],
                      TRUE, <<"3", "0">>)}

\* response.data of a successful response
Bodies == {"body1", "body2"}
NoResult == ""

----------------------------------------------------------------------------
(* Error classes: types.ts *)

MakeError(name, code, status, message, retryAfter, details) ==
    [message |-> message, code |-> code, status |-> status, name |-> name,
     retryAfter |-> retryAfter, details |-> details]

\* the value of an unassigned lastError
Undefined == MakeError("undefined", "", NoStatus, "", NoRetryAfter, NoData)

HashubVectorError(message, code, status, details) ==
    MakeError("HashubVectorError", code, status, message, NoRetryAfter, details)

AuthenticationError(message) ==
    MakeError("AuthenticationError", "AUTHENTICATION_ERROR", 401, message, NoRetryAfter, NoData)

RateLimitError(message, retryAfter) ==
    MakeError("RateLimitError", "RATE_LIMIT_ERROR", 429, message, retryAfter, NoData)

QuotaExceededError(message) ==
    MakeError("QuotaExceededError", "QUOTA_EXCEEDED_ERROR", 402, message, NoRetryAfter, NoData)

ValidationError(message) ==
    MakeError("ValidationError", "VALIDATION_ERROR", 400, message, NoRetryAfter, NoData)

\* ServerError without its status argument
ServerError_NoStatus(message) ==
    MakeError("ServerError", "SERVER_ERROR", NoStatus, message, NoRetryAfter, NoData)

ServerError(message) ==
    MakeError("ServerError", "SERVER_ERROR", 500, message, NoRetryAfter, NoData)

NetworkError(message) ==
    MakeError("NetworkError", "NETWORK_ERROR", NoStatus, message, NoRetryAfter, NoData)

TimeoutError(message) ==
    MakeError("TimeoutError", "TIMEOUT_ERROR", NoStatus, message, NoRetryAfter, NoData)

\* what the interceptor itself fails with when it reads a property of undefined
TypeError ==
    MakeError("TypeError", "", NoStatus, "Cannot read properties of undefined",
              NoRetryAfter, NoData)

\* the names of the classes that are HashubVectorError or extend it
SdkErrorNames ==
    {"HashubVectorError", "AuthenticationError", "RateLimitError", "QuotaExceededError",
     "ValidationError", "ServerError", "NetworkError", "TimeoutError"}

----------------------------------------------------------------------------
(* The error classifier: HashubVector.handleError *)

Digits == {"0", "1", "2", "3", "4", "5", "6", "7", "8", "9"}

DigitValue(ch) ==
    CASE ch = "0" -> 0 [] ch = "1" -> 1 [] ch = "2" -> 2 [] ch = "3" -> 3
      [] ch = "4" -> 4 [] ch = "5" -> 5 [] ch = "6" -> 6 [] ch = "7" -> 7
      [] ch = "8" -> 8 [] ch = "9" -> 9

\* the value of the longest prefix of decimal digits of s, read after acc
RECURSIVE ParseDigits(_, _)
ParseDigits(s, acc) ==
    IF s = <<>> \/ Head(s) \notin Digits
    THEN acc
    ELSE ParseDigits(Tail(s), acc * 10 + DigitValue(Head(s)))

\* parseInt(s): the leading decimal digits of s as a number, NaN when there are none
parseInt(s) ==
    IF s = <<>> \/ Head(s) \notin Digits THEN NaN ELSE ParseDigits(s, 0)

\* ExtractMessage preferring the error field to the message field
ExtractMessage_ErrorFirst(data) ==
    IF data.error # "" THEN data.error
    ELSE IF data.message # "" THEN data.message
    ELSE "Unknown error"

\* data?.message || data?.error || 'Unknown error'
ExtractMessage(data) ==
    IF data.message # "" THEN data.message
    ELSE IF data.error # "" THEN data.error
    ELSE "Unknown error"

\* ClassifyStatus with the case for 502 left out of the server statuses
ClassifyStatus_No502(error) ==
    LET status == error.status
        data == error.data
        message == ExtractMessage(data)
    IN  CASE status = 401 -> AuthenticationError(message)
          [] status = 402 -> QuotaExceededError(message)
          [] status = 400 -> ValidationError(message)
          [] status = 429 ->
                IF ~error.hasHeaders
                THEN TypeError
                ELSE RateLimitError(message,
                        IF error.retryAfterHeader # <<>>
                        THEN parseInt(error.retryAfterHeader)
                        ELSE NoRetryAfter)
          [] status \in {500, 503, 504} -> ServerError(message)
          [] OTHER -> HashubVectorError(message, "API_ERROR", status, data)

\* ClassifyStatus whose ServerError carries the status of the response
ClassifyStatus_ServerKeepsStatus(error) ==
    LET status == error.status
        data == error.data
        message == ExtractMessage(data)
    IN  CASE status = 401 -> AuthenticationError(message)
          [] status = 402 -> QuotaExceededError(message)
          [] status = 400 -> ValidationError(message)
          [] status = 429 ->
                IF ~error.hasHeaders
                THEN TypeError
                ELSE RateLimitError(message,
                        IF error.retryAfterHeader # <<>>
                        THEN parseInt(error.retryAfterHeader)
                        ELSE NoRetryAfter)
          [] status \in {500, 502, 503, 504} ->
                MakeError("ServerError", "SERVER_ERROR", status, message, NoRetryAfter,
                          NoData)
          [] OTHER -> HashubVectorError(message, "API_ERROR", status, data)

\* the switch on response.status
ClassifyStatus(error) ==
    LET status == error.status
        data == error.data
        message == ExtractMessage(data)
    IN  CASE status = 401 -> AuthenticationError(message)
          [] status = 402 -> QuotaExceededError(message)
          [] status = 400 -> ValidationError(message)
          [] status = 429 ->
                IF ~error.hasHeaders
                THEN TypeError
                ELSE RateLimitError(message,
                        IF error.retryAfterHeader # <<>>
                        THEN parseInt(error.retryAfterHeader)
                        ELSE NoRetryAfter)
          [] status \in {500, 502, 503, 504} -> ServerError(message)
          [] OTHER -> HashubVectorError(message, "API_ERROR", status, data)

\* handleError looking at the response before the transport code
handleError_ResponseFirst(error) ==
    IF error.hasResponse
    THEN ClassifyStatus(error)
    ELSE IF error.code = "ECONNABORTED" \/ error.code = "ETIMEDOUT"
    THEN TimeoutError("Request timeout")
    ELSE IF error.code = "ENOTFOUND" \/ error.code = "ECONNREFUSED"
    THEN NetworkError("Network connection error")
    ELSE NetworkError(IF error.message # "" THEN error.message ELSE "Network error")

\* the error the interceptor rejects with for the axios error `error`
handleError(error) ==
    IF error.code = "ECONNABORTED" \/ error.code = "ETIMEDOUT"
    THEN TimeoutError("Request timeout")
    ELSE IF error.code = "ENOTFOUND" \/ error.code = "ECONNREFUSED"
    THEN NetworkError("Network connection error")
    ELSE IF ~error.hasResponse
    THEN NetworkError(IF error.message # "" THEN error.message ELSE "Network error")
    ELSE ClassifyStatus(error)

----------------------------------------------------------------------------
(* The request executor: HashubVector.makeRequest *)

RECURSIVE Pow2(_)
Pow2(n) == IF n = 0 THEN 1 ELSE 2 * Pow2(n - 1)

\* IsClientError with > 400 for >= 400: a 400 is retried
IsClientError_Above400(error) ==
    /\ error.status # NoStatus
    /\ error.status # 0
    /\ error.status > 400
    /\ error.status < 500
    /\ error.status # 429

\* IsClientError taking an error without a status for a client error
IsClientError_NoStatusTerminal(error) ==
    \/ error.status = NoStatus
    \/ /\ error.status >= 400
       /\ error.status < 500
       /\ error.status # 429

\* IsClientError without the upper bound: every status from 400 up but 429 raises
IsClientError_NoUpperBound(error) ==
    /\ error.status # NoStatus
    /\ error.status # 0
    /\ error.status >= 400
    /\ error.status # 429

\* IsClientError applied on the first attempt only: a 4xx met on a retry is retried
IsClientError_FirstAttemptOnly(error) ==
    /\ attempt = 0
    /\ error.status # NoStatus
    /\ error.status # 0
    /\ error.status >= 400
    /\ error.status < 500
    /\ error.status # 429

\* error.status && error.status >= 400 && error.status < 500 && error.status !== 429
IsClientError(error) ==
    /\ error.status # NoStatus
    /\ error.status # 0
    /\ error.status >= 400
    /\ error.status < 500
    /\ error.status # 429

\* RetriesRemain without the - 1: a sleep follows the last attempt too
RetriesRemain_AfterLast(a) == a < config.maxRetries

\* RetriesRemain that is always true: a sleep follows every retryable failure
RetriesRemain_Always(a) == a >= 0

\* attempt < this.config.maxRetries - 1
RetriesRemain(a) == a < config.maxRetries - 1

\* BackoffDelay growing linearly: (attempt + 1) * 1000
BackoffDelay_Linear(a) == (a + 1) * BaseDelayMs

\* BackoffDelay counting attempts from 1: Math.pow(2, attempt + 1) * 1000
BackoffDelay_ExponentOffByOne(a) == Pow2(a + 1) * BaseDelayMs

\* BackoffDelay that honours the retry-after of the error just caught
BackoffDelay_RetryAfter(a) ==
    IF lastError'.retryAfter > 0 THEN lastError'.retryAfter * 1000 ELSE Pow2(a) * BaseDelayMs

\* Math.pow(2, attempt) * 1000
BackoffDelay(a) == Pow2(a) * BaseDelayMs

\* LoopCondition with <= for <: one attempt too many
LoopCondition_OffByOne(a) == a <= config.maxRetries

\* LoopCondition of a do-while loop: the first attempt is always made
LoopCondition_AtLeastOnce(a) == a = 0 \/ a < config.maxRetries

\* attempt < this.config.maxRetries
LoopCondition(a) == a < config.maxRetries

\* CatchError that keeps the first error: lastError ??= error
CatchError_KeepsFirst(prev, error) == IF prev = Undefined THEN error ELSE prev

\* lastError = error
CatchError(prev, error) == error

\* ReturnValue reading a field the response does not have: undefined
ReturnValue_Undefined(response) == NoResult

\* return response.data
ReturnValue(response) == response.data

\* the AxiosResponse of a request that resolved
Response(body) == [status |-> 200, data |-> body]

\* what one completed attempt delivered
Success(body) == [error |-> NoResponse("", ""), data |-> body, ok |-> TRUE]
Failure(f) == [error |-> f, data |-> NoResult, ok |-> FALSE]

\* RequestConfig whose body is consumed by the first attempt: a retry sends none
RequestConfig_BodyOnce(a) ==
    [data |-> IF requests = 0 THEN a.data ELSE <<>>, method |-> a.method,
     url |-> a.endpoint, params |-> a.params,
     baseURL |-> client.baseURL, timeout |-> client.timeout, headers |-> client.headers]

\* the request this.client.request issues for makeRequest's parameters a:
\* { method, url: endpoint, data, ...config } over the defaults of the instance
RequestConfig(a) ==
    [data |-> a.data, method |-> a.method, url |-> a.endpoint, params |-> a.params,
     baseURL |-> client.baseURL, timeout |-> client.timeout, headers |-> client.headers]

\* the head of the for loop with counter a and lastError err: issue the next
\* request, or leave the loop and throw lastError
LoopHead(a, err) ==
    /\ attempt' = a
    /\ IF LoopCondition(a)
       THEN /\ pc' = "awaitResponse"
            /\ requests' = requests + 1
            /\ sent' = Append(sent, RequestConfig(args'))
            /\ thrown' = thrown
       ELSE /\ pc' = "raised"
            /\ requests' = requests
            /\ sent' = sent
            /\ thrown' = err

----------------------------------------------------------------------------
(* The constructor *)

\* { ...a, ...b }: the keys of both, b's value where both have the key
Spread(a, b) ==
    [k \in DOMAIN a \cup DOMAIN b |-> IF k \in DOMAIN b THEN b[k] ELSE a[k]]

\* an object without keys
Empty == <<>>

\* the defaults of the constructor
Defaults ==
    [maxRetries |-> DefaultMaxRetries, timeout |-> DefaultTimeout,
     headers |-> Empty, baseUrl |-> "https://api.vector.hashub.dev"]

\* ResolveConfig with the defaults spread last: { ...config, baseUrl: ..., ... }
ResolveConfig_DefaultsLast(cfg) == Spread(cfg, Defaults)

\* this.config = { baseUrl: ..., timeout: ..., maxRetries: ..., headers: {}, ...config }
ResolveConfig(cfg) == Spread(Defaults, cfg)

\* the headers of the axios instance: Authorization, Content-Type and User-Agent,
\* with this.config.headers spread over them
ClientHeaders(cfg) ==
    Spread(("Authorization" :> "Bearer " \o cfg.apiKey)
           @@ ("Content-Type" :> "application/json")
           @@ ("User-Agent" :> "hashub-vector-js/1.0.0"),
           cfg.headers)

\* axios.create({ baseURL, timeout, headers })
CreateClient(cfg) ==
    [baseURL |-> cfg.baseUrl, timeout |-> cfg.timeout, headers |-> ClientHeaders(cfg)]

\* before any operation is invoked
NoOp == [name |-> "none", request |-> Empty]
NoArgs == [data |-> Empty, method |-> "", endpoint |-> "", params |-> Empty]

\* no other call is in flight
NoCall == [pc |-> "none"]

\* the state of a call that has not been made yet
IdleCall ==
    /\ pc = "idle"
    /\ attempt = 0
    /\ lastError = Undefined
    /\ requests = 0
    /\ slept = <<>>
    /\ history = <<>>
    /\ result = NoResult
    /\ thrown = Undefined
    /\ op = NoOp
    /\ args = NoArgs
    /\ sent = <<>>

\* construction: the defaults with the caller's config spread over them; the
\* constructor accepts any maxRetries (0 stands for every value the loop
\* condition is false for at attempt 0)
Init ==
    /\ input \in {[maxRetries |-> m, apiKey |-> "key"] : m \in 0..MaxRetriesBound}
    /\ config = ResolveConfig(input)
    /\ client = CreateClient(config)
    /\ IdleCall
    /\ other = NoCall

----------------------------------------------------------------------------
(* The operations *)

\* ModelOrDefault that ignores the caller's model
ModelOrDefault_Always(model) == "e5_base"

\* request.model || 'e5_base'
ModelOrDefault(model) == IF model # "" THEN model ELSE "e5_base"

\* the arguments vectorize passes to makeRequest
vectorizeArgs(request) ==
    [data |-> [model |-> ModelOrDefault(request.model), text |-> request.text,
               chunk_size |-> request.chunkSize,
               chunk_overlap |-> request.chunkOverlap],
     method |-> "POST", endpoint |-> "/vectorize", params |-> Empty]

\* the arguments vectorizeBatch passes to makeRequest
vectorizeBatchArgs(request) ==
    [data |-> [model |-> ModelOrDefault(request.model),
               chunk_size |-> request.chunkSize,
               chunk_overlap |-> request.chunkOverlap, texts |-> request.texts],
     method |-> "POST", endpoint |-> "/vectorize-batch", params |-> Empty]

\* the arguments similarity passes to makeRequest
similarityArgs(request) ==
    [data |-> [model |-> ModelOrDefault(request.model), text1 |-> request.text1,
               text2 |-> request.text2],
     method |-> "POST", endpoint |-> "/similarity", params |-> Empty]

\* the arguments getModels passes to makeRequest
getModelsArgs(request) ==
    [data |-> Empty, method |-> "GET", endpoint |-> "/models", params |-> Empty]

\* the arguments getUsage passes to makeRequest
getUsageArgs(request) ==
    [data |-> Empty, method |-> "GET", endpoint |-> "/usage", params |-> Empty]

\* UsageParams with the second test nested in the first: to is sent with from only
UsageParams_ToUnderFrom(from, to) ==
    IF from # ""
    THEN Spread([from |-> from], IF to # "" THEN [to |-> to] ELSE <<>>)
    ELSE <<>>

\* if (from) params.from = from; if (to) params.to = to
UsageParams(from, to) ==
    Spread(IF from # "" THEN [from |-> from] ELSE Empty,
           IF to # "" THEN [to |-> to] ELSE Empty)

\* the arguments getDetailedUsage passes to makeRequest
getDetailedUsageArgs(request) ==
    [data |-> Empty, method |-> "GET", endpoint |-> "/usage",
     params |-> UsageParams(request.from, request.to)]

\* the arguments createEmbedding passes to makeRequest
createEmbeddingArgs(request) ==
    [data |-> [input |-> request.input, model |-> request.model, user |-> request.user],
     method |-> "POST", endpoint |-> "/embeddings", params |-> Empty]

\* the models field of each response body
ModelsField(body) ==
    CASE body = "body1" -> "models1"
      [] body = "body2" -> "models2"
      [] OTHER -> NoResult

\* OperationResult returning the response itself for getModels too
OperationResult_Whole(name, response) == response

\* what the operation returns of the value makeRequest returned: response.models
\* for getModels, the response for every other operation
OperationResult(name, response) ==
    IF name = "getModels" THEN ModelsField(response) ELSE response

\* the arguments the model invokes the operations with; "" is an absent string
VectorizeRequests ==
    [model : {"", "gte_base"}, text : {"hello"}, chunkSize : {UndefinedNumber, 512},
     chunkOverlap : {UndefinedNumber}]
VectorizeBatchRequests ==
    [model : {"", "gte_base"}, chunkSize : {UndefinedNumber}, chunkOverlap : {UndefinedNumber},
     texts : {<<"a", "b">>}]
SimilarityRequests == [model : {"", "gte_base"}, text1 : {"a"}, text2 : {"b"}]
DetailedUsageRequests == [from : {"", "2024-01-01"}, to : {"", "2024-01-31"}]
EmbeddingRequests == [input : {"hello"}, model : {"", "gte_base"}, user : {""}]

\* the operation `name` is invoked with `request` and calls makeRequest with the
\* parameters a: lastError is declared, the loop is entered
Invoke(name, request, a) ==
    /\ pc = "idle"
    /\ op' = [name |-> name, request |-> request]
    /\ args' = a
    /\ lastError' = Undefined
    /\ LoopHead(0, Undefined)
    /\ UNCHANGED <<config, slept, history, result, input, client, other>>

vectorize == \E request \in VectorizeRequests : Invoke("vectorize", request, vectorizeArgs(request))

vectorizeBatch ==
    \E request \in VectorizeBatchRequests :
        Invoke("vectorizeBatch", request, vectorizeBatchArgs(request))

similarity ==
    \E request \in SimilarityRequests : Invoke("similarity", request, similarityArgs(request))

getModels == Invoke("getModels", Empty, getModelsArgs(Empty))

getUsage == Invoke("getUsage", Empty, getUsageArgs(Empty))

getDetailedUsage ==
    \E request \in DetailedUsageRequests :
        Invoke("getDetailedUsage", request, getDetailedUsageArgs(request))

createEmbedding ==
    \E request \in EmbeddingRequests :
        Invoke("createEmbedding", request, createEmbeddingArgs(request))

----------------------------------------------------------------------------
(* One call through the executor *)

\* an operation calls makeRequest (getUsage, whose result is makeRequest's)
Call == getUsage

\* the awaited request resolves: return response.data
RequestSucceeds ==
    /\ pc = "awaitResponse"
    /\ \E body \in Bodies :
        /\ history' = Append(history, Success(body))
        /\ result' = OperationResult(op.name, ReturnValue(Response(body)))
    /\ pc' = "returned"
    /\ UNCHANGED <<config, attempt, lastError, requests, slept, thrown>>
    /\ UNCHANGED <<input, client, op, args, sent, other>>

\* the awaited request rejects with what the interceptor made of a failure of
\* the set F: the catch block, up to its await or to the throw
Rejects(F) ==
    /\ pc = "awaitResponse"
    /\ UNCHANGED <<input, client, op, args, other>>
    /\ \E f \in F :
        LET error == handleError(f) IN
        /\ history' = Append(history, Failure(f))
        /\ lastError' = CatchError(lastError, error)
        /\ IF IsClientError(error)
           THEN /\ pc' = "raised"
                /\ thrown' = error
                /\ UNCHANGED <<attempt, requests, slept, sent>>
           ELSE IF RetriesRemain(attempt)
           THEN /\ pc' = "sleeping"
                /\ slept' = Append(slept, BackoffDelay(attempt))
                /\ UNCHANGED <<attempt, requests, thrown, sent>>
           ELSE /\ LoopHead(attempt + 1, CatchError(lastError, error))
                /\ UNCHANGED slept
    /\ UNCHANGED <<config, result>>

RequestFails == Rejects(AttemptFailures)

\* the backoff timer fires: attempt++ and the loop is entered again
TimerFires ==
    /\ pc = "sleeping"
    /\ UNCHANGED <<input, client, op, args, other>>
    /\ LoopHead(attempt + 1, lastError)
    /\ UNCHANGED <<config, lastError, slept, history, result>>

Next ==
    \/ Call
    \/ RequestSucceeds
    \/ RequestFails
    \/ TimerFires

Spec == Init /\ [][Next]_vars

\* an awaited request settles (axios resolves it, or rejects it with a response,
\* a transport failure or its own timeout) and a timer set by setTimeout fires
Attempt == RequestSucceeds \/ RequestFails

SpecFair == Spec /\ WF_vars(Attempt) /\ WF_vars(TimerFires)

----------------------------------------------------------------------------
(* A client from its construction on: any config, any operation *)

\* the config objects the constructor is called with: apiKey, and each of the
\* optional keys absent or passed
Inputs ==
    {Spread(Spread(Spread(Spread([apiKey |-> k], b), t), m), h) :
        k \in {"", "key"},
        b \in {Empty, [baseUrl |-> "https://vector.hashub.dev"]},
        t \in {Empty, [timeout |-> 5000]},
        m \in {Empty} \cup {[maxRetries |-> n] : n \in {0, 1, 2, UndefinedNumber}},
        h \in {Empty, [headers |-> ("X-Trace" :> "1")],
                      [headers |-> ("Authorization" :> "Basic abc")]}}

\* the failures of the attempts of these calls: a timeout, a 503 and a 401
SampleFailures ==
    {NoResponse("ECONNABORTED", "timeout of 30000ms exceeded"),
     HttpFailure("", 503, NoData, TRUE, <<>>),
     HttpFailure("", 401, [present |-> TRUE, message |-> "bad key", error |-> ""],
                 TRUE, <<>>)}

InitClient ==
    /\ input \in Inputs
    /\ config = Empty
    /\ client = Empty
    /\ pc = "new"
    /\ attempt = 0
    /\ lastError = Undefined
    /\ requests = 0
    /\ slept = <<>>
    /\ history = <<>>
    /\ result = NoResult
    /\ thrown = Undefined
    /\ op = NoOp
    /\ args = NoArgs
    /\ sent = <<>>
    /\ other = NoCall

\* new HashubVector(input)
Construct ==
    /\ pc = "new"
    /\ config' = ResolveConfig(input)
    /\ client' = CreateClient(config')
    /\ pc' = "idle"
    /\ UNCHANGED <<attempt, lastError, requests, slept, history, result, thrown>>
    /\ UNCHANGED <<input, op, args, sent, other>>

RequestFailsSample == Rejects(SampleFailures)

NextClient ==
    \/ Construct
    \/ vectorize
    \/ vectorizeBatch
    \/ similarity
    \/ getModels
    \/ getUsage
    \/ getDetailedUsage
    \/ createEmbedding
    \/ RequestSucceeds
    \/ RequestFailsSample
    \/ TimerFires

SpecClient == InitClient /\ [][NextClient]_vars

----------------------------------------------------------------------------
(* Two invocations in flight on one client *)
\* The event loop runs one invocation at a time, from one await to the next;
\* the other invocation is suspended at its own await (or not started, or
\* done) and its locals are kept in its frame.

\* the locals of the running invocation, as its frame keeps them while it is
\* suspended
Frame ==
    [pc |-> pc, attempt |-> attempt, lastError |-> lastError, requests |-> requests,
     slept |-> slept, history |-> history, result |-> result, thrown |-> thrown,
     op |-> op, args |-> args, sent |-> sent]

\* the frame of an invocation that has not been made yet
IdleFrame ==
    [pc |-> "idle", attempt |-> 0, lastError |-> Undefined, requests |-> 0,
     slept |-> <<>>, history |-> <<>>, result |-> NoResult, thrown |-> Undefined,
     op |-> NoOp, args |-> NoArgs, sent |-> <<>>]

\* an executor whose loop counter is a field of the instance, not a local
Resume_SharedAttempt(frame) ==
    /\ pc' = frame.pc
    /\ attempt' = attempt
    /\ lastError' = frame.lastError
    /\ requests' = frame.requests
    /\ slept' = frame.slept
    /\ history' = frame.history
    /\ result' = frame.result
    /\ thrown' = frame.thrown
    /\ op' = frame.op
    /\ args' = frame.args
    /\ sent' = frame.sent

\* the suspended invocation continues with its own locals: `let lastError` and
\* `let attempt` are declared inside makeRequest, one per invocation
Resume(frame) ==
    /\ pc' = frame.pc
    /\ attempt' = frame.attempt
    /\ lastError' = frame.lastError
    /\ requests' = frame.requests
    /\ slept' = frame.slept
    /\ history' = frame.history
    /\ result' = frame.result
    /\ thrown' = frame.thrown
    /\ op' = frame.op
    /\ args' = frame.args
    /\ sent' = frame.sent

\* the running invocation is at an await (or has not started, or is done) and
\* the event loop turns to the other one
Switch ==
    /\ other.pc # "none"
    /\ Resume(other)
    /\ other' = Frame
    /\ UNCHANGED <<config, input, client>>

\* largest maxRetries of a client that two invocations run on
ConcurrentRetriesBound == 3

InitConcurrent ==
    /\ input \in {[maxRetries |-> m, apiKey |-> "key"] : m \in 0..ConcurrentRetriesBound}
    /\ config = ResolveConfig(input)
    /\ client = CreateClient(config)
    /\ IdleCall
    /\ other = IdleFrame

NextConcurrent ==
    \/ getUsage
    \/ getModels
    \/ RequestSucceeds
    \/ RequestFailsSample
    \/ TimerFires
    \/ Switch

SpecConcurrent == InitConcurrent /\ [][NextConcurrent]_vars

----------------------------------------------------------------------------
(* The classifier alone: the interceptor is handed one rejected request *)

InitClassify ==
    /\ input = [apiKey |-> "key"]
    /\ config = ResolveConfig(input)
    /\ client = CreateClient(config)
    /\ op = NoOp
    /\ args = NoArgs
    /\ sent = <<>>
    /\ other = NoCall
    /\ pc = "rejected"
    /\ attempt = 0
    /\ lastError = Undefined
    /\ requests = 1
    /\ slept = <<>>
    /\ \E f \in AxiosFailures : history = <<Failure(f)>>
    /\ result = NoResult
    /\ thrown = Undefined

\* (error) => this.handleError(error)
Intercept ==
    /\ pc = "rejected"
    /\ lastError' = handleError(history[1].error)
    /\ pc' = "classified"
    /\ UNCHANGED <<config, attempt, requests, slept, history, result, thrown>>
    /\ UNCHANGED <<input, client, op, args, sent, other>>

NextClassify == Intercept

SpecClassify == InitClassify /\ [][NextClassify]_vars

----------------------------------------------------------------------------
(* The classifier over every shape of its argument (error: any) *)

\* the shapes AxiosFailures leaves out: a response without a headers object, and
\* a response without a status
FailureShapes ==
    AxiosFailures
    \cup {HttpFailure(c, s, d, FALSE, <<>>) :
            c \in TransportCodes, s \in StatusSet \cup {NoStatus}, d \in DataSet}
    \cup {HttpFailure(c, NoStatus, d, TRUE, h) :
            c \in TransportCodes, d \in DataSet, h \in RetryAfterHeaders}

InitAnyShape ==
    /\ input = [apiKey |-> "key"]
    /\ config = ResolveConfig(input)
    /\ client = CreateClient(config)
    /\ op = NoOp
    /\ args = NoArgs
    /\ sent = <<>>
    /\ other = NoCall
    /\ pc = "rejected"
    /\ attempt = 0
    /\ lastError = Undefined
    /\ requests = 1
    /\ slept = <<>>
    /\ \E f \in FailureShapes : history = <<Failure(f)>>
    /\ result = NoResult
    /\ thrown = Undefined

SpecAnyShape == InitAnyShape /\ [][NextClassify]_vars

----------------------------------------------------------------------------
(* Properties of the executor, checked under Spec *)

Terminated == pc \in {"returned", "raised"}

\* the classified error of the i-th completed attempt of the call (a failed one)
ErrorOf(i) == handleError(history[i].error)

Failed(i) == ~history[i].ok

NonRetryableKinds == {"AuthenticationError", "QuotaExceededError", "ValidationError"}

TransientKinds == {"RateLimitError", "ServerError", "NetworkError", "TimeoutError"}

\* C1: every call that has ended has exactly one outcome: it returned a decoded
\* result and threw nothing, or it threw one classified error (a
\* HashubVectorError value) and returned nothing.
C1_ExactlyOneOutcome ==
    Terminated =>
        \/ /\ pc = "returned"
           /\ result \in Bodies
           /\ thrown = Undefined
        \/ /\ pc = "raised"
           /\ thrown.name \in SdkErrorNames
           /\ result = NoResult

\* C2: an attempt that fails as Authentication, QuotaExceeded or Validation is
\* the last attempt of its call: the call has raised that attempt's error, no
\* request was issued after it and no backoff timer was set for it.
C2_TerminalKindsNotRetried ==
    \A i \in 1..Len(history) :
        (Failed(i) /\ ErrorOf(i).name \in NonRetryableKinds) =>
            /\ i = Len(history)
            /\ pc = "raised"
            /\ thrown = ErrorOf(i)
            /\ requests = i
            /\ Len(slept) = i - 1

\* a call of a client with attempts to spare raised on a second attempt's 401
C2_Witness ==
    /\ pc = "raised"
    /\ config.maxRetries = 4
    /\ Len(history) = 2
    /\ ErrorOf(2).name = "AuthenticationError"
    /\ requests = 2

\* C3: a call that raised after failures of the kinds RateLimit, Server, Network
\* and Timeout only has issued exactly maxRetries requests; and a failure without
\* an HTTP status (a transport timeout among them) met before the last permitted
\* attempt is followed by a backoff sleep, not by the raise.
C3_TransientFailuresUseAllAttempts ==
    /\ (/\ pc = "raised"
        /\ \A i \in 1..Len(history) : Failed(i) /\ ErrorOf(i).name \in TransientKinds)
       => (requests = config.maxRetries /\ Len(history) = config.maxRetries)
    /\ \A i \in 1..Len(history) :
        (Failed(i) /\ ErrorOf(i).status = NoStatus /\ i < config.maxRetries) =>
            /\ Len(slept) >= i
            /\ ~(pc = "raised" /\ Len(history) = i)

\* three attempts, a timeout and a network failure among them, then the raise
C3_Witness ==
    /\ pc = "raised"
    /\ config.maxRetries = 3
    /\ Len(history) = 3
    /\ requests = 3
    /\ ErrorOf(1).name = "TimeoutError"
    /\ ErrorOf(2).name = "NetworkError"
    /\ ErrorOf(3).name = "ServerError"

\* 1000, 2000, 4000, ...: the i-th delay of the doubling sequence
RECURSIVE Doubling(_)
Doubling(i) == IF i = 1 THEN 1000 ELSE 2 * Doubling(i - 1)

C5_RaisesLastError ==
    (pc = "raised" /\ Len(history) >= 1) => thrown = ErrorOf(Len(history))

\* Server, Timeout, RateLimit with maxRetries = 3: the RateLimit error is raised
C5_Witness ==
    /\ pc = "raised"
    /\ config.maxRetries = 3
    /\ Len(history) = 3
    /\ ErrorOf(1).name = "ServerError"
    /\ ErrorOf(2).name = "TimeoutError"
    /\ ErrorOf(3).name = "RateLimitError"
    /\ thrown.name = "RateLimitError"

\* C6: with maxRetries = 1 a call never sets a backoff timer and never issues a
\* second request, and whatever its attempt fails with is raised at once.
C6_SingleAttempt ==
    config.maxRetries = 1 =>
        /\ slept = <<>>
        /\ pc # "sleeping"
        /\ requests <= 1
        /\ (Len(history) = 1 /\ Failed(1)) =>
                (pc = "raised" /\ thrown = ErrorOf(1) /\ requests = 1)

\* a transient failure raised after the only attempt
C6_Witness ==
    /\ config.maxRetries = 1
    /\ pc = "raised"
    /\ requests = 1
    /\ thrown.name = "ServerError"
    /\ slept = <<>>

\* the statuses handleError's switch names
NamedStatuses == {400, 401, 402, 429, 500, 502, 503, 504}

\* the i-th attempt failed with a response of a status the switch does not name
Unclassified(i) ==
    /\ Failed(i)
    /\ history[i].error.hasResponse
    /\ history[i].error.code = ""
    /\ history[i].error.status \notin NamedStatuses

\* the generic API error of the i-th attempt: code API_ERROR, raw status and body
GenericErrorOf(i) ==
    [message |-> IF history[i].error.data.message # "" THEN history[i].error.data.message
                 ELSE IF history[i].error.data.error # "" THEN history[i].error.data.error
                 ELSE "Unknown error",
     code |-> "API_ERROR", status |-> history[i].error.status,
     name |-> "HashubVectorError",
     retryAfter |-> NoRetryAfter, details |-> history[i].error.data]

\* C7 as stated: a failure of a status outside the named ones is the generic API
\* error, and while attempts remain the executor sleeps and retries it instead
\* of raising.
C7_UnclassifiedRetried ==
    \A i \in 1..Len(history) :
        Unclassified(i) =>
            /\ i = Len(history) => lastError = GenericErrorOf(i)
            /\ i < config.maxRetries =>
                    (Len(slept) >= i /\ ~(pc = "raised" /\ Len(history) = i))

\* C7, amended: a failure of a status outside the named ones is the generic API
\* error with the raw status and body; with a status from 400 to 499 it is raised
\* at once, with no sleep and no further request, and with any other status
\* (304, 501) it is slept on and retried while attempts remain.
C7_UnclassifiedRetriedUnless4xx ==
    \A i \in 1..Len(history) :
        Unclassified(i) =>
            /\ i = Len(history) => lastError = GenericErrorOf(i)
            /\ history[i].error.status \in 400..499 =>
                    /\ i = Len(history)
                    /\ pc = "raised"
                    /\ thrown = GenericErrorOf(i)
                    /\ requests = i
                    /\ Len(slept) = i - 1
            /\ (history[i].error.status \notin 400..499 /\ i < config.maxRetries) =>
                    (Len(slept) >= i /\ ~(pc = "raised" /\ Len(history) = i))

\* a 501 was slept on and retried, and the 403 of the retry was raised at once
C7_Witness ==
    /\ config.maxRetries = 4
    /\ Len(history) = 2
    /\ history[1].error.status = 501
    /\ history[2].error.status = 403
    /\ slept = <<1000>>
    /\ pc = "raised"
    /\ thrown.code = "API_ERROR"
    /\ thrown.status = 403

Min(a, b) == IF a <= b THEN a ELSE b

\* the position of the first attempt of the history that Stops(_) holds of, and
\* a position beyond every permitted attempt when there is none
FirstStop(Stops(_)) ==
    IF \E i \in 1..Len(history) : Stops(i)
    THEN CHOOSE i \in 1..Len(history) :
            Stops(i) /\ \A j \in 1..(i - 1) : ~Stops(j)
    ELSE Len(history) + config.maxRetries + 1

\* an attempt that succeeded or failed with one of the three non-retryable kinds
StopsByKind(i) == history[i].ok \/ ErrorOf(i).name \in NonRetryableKinds

\* an attempt that succeeded or failed with an error carrying a status from 400
\* to 499 other than 429
StopsByStatus(i) ==
    \/ history[i].ok
    \/ /\ Failed(i)
       /\ ErrorOf(i).status \in 400..499
       /\ ErrorOf(i).status # 429

\* C8 as stated: a call with maxRetries >= 1 that has ended issued min(maxRetries,
\* position of the first attempt that succeeded or failed as Authentication,
\* QuotaExceeded or Validation) requests, and no request follows a success.
C8_StopsAtFirstStoppingKind ==
    (Terminated /\ config.maxRetries >= 1) =>
        /\ requests = Min(config.maxRetries, FirstStop(StopsByKind))
        /\ Len(history) = requests
        /\ \A i \in 1..(Len(history) - 1) : ~history[i].ok

\* C8, amended: a call with maxRetries >= 1 that has ended issued min(maxRetries,
\* position of the first attempt that succeeded or failed with an error carrying
\* a status from 400 to 499 other than 429) requests, and no request follows a
\* success; a call in flight has issued no request past such an attempt.
C8_StopsAtFirstStoppingStatus ==
    /\ (Terminated /\ config.maxRetries >= 1) =>
            /\ requests = Min(config.maxRetries, FirstStop(StopsByStatus))
            /\ Len(history) = requests
    /\ \A i \in 1..Len(history) :
            StopsByStatus(i) => (i = Len(history) /\ requests = i /\ Terminated)

\* a call with four permitted attempts stopped by the 404 of its second
C8_Witness ==
    /\ config.maxRetries = 4
    /\ pc = "raised"
    /\ requests = 2
    /\ history[1].error.status = 503
    /\ history[2].error.status = 404

\* C9: a call that returned did so on a successful last attempt and returned
\* that response's body, having thrown nothing; a call that ended without a
\* successful attempt raised, and raised the error it last caught.
C9_NoErrorSwallowed ==
    /\ pc = "returned" =>
            /\ Len(history) >= 1
            /\ history[Len(history)].ok
            /\ result = history[Len(history)].data
            /\ result \in Bodies
            /\ thrown = Undefined
    /\ (Terminated /\ \A i \in 1..Len(history) : Failed(i)) =>
            /\ pc = "raised"
            /\ result = NoResult
            /\ thrown = lastError
            /\ Len(history) >= 1 => thrown.name \in SdkErrorNames

\* a call returned the body of its third attempt after two failures
C9_Witness ==
    /\ pc = "returned"
    /\ Len(history) = 3
    /\ Failed(1)
    /\ Failed(2)
    /\ history[3].ok
    /\ result = "body2"

----------------------------------------------------------------------------
(* Properties of the classifier, checked under SpecClassify *)

\* the failure the interceptor was handed
Rejected == history[1].error

\* C10: a failure with a response and none of the four transport codes is
\* classified by its status alone: 401 Authentication, 402 QuotaExceeded, 400
\* Validation, 429 RateLimit, 500, 502, 503 and 504 Server, and every other
\* status the generic error with code API_ERROR, the raw status and the body.
C10_StatusToKind ==
    (/\ pc = "classified"
     /\ Rejected.hasResponse
     /\ Rejected.code \notin {"ECONNABORTED", "ETIMEDOUT", "ENOTFOUND", "ECONNREFUSED"})
    =>
        /\ Rejected.status = 401 <=> lastError.name = "AuthenticationError"
        /\ Rejected.status = 402 <=> lastError.name = "QuotaExceededError"
        /\ Rejected.status = 400 <=> lastError.name = "ValidationError"
        /\ Rejected.status = 429 <=> lastError.name = "RateLimitError"
        /\ Rejected.status \in {500, 502, 503, 504} <=> lastError.name = "ServerError"
        /\ Rejected.status \notin NamedStatuses <=> lastError.name = "HashubVectorError"
        /\ Rejected.status \notin NamedStatuses =>
                /\ lastError.code = "API_ERROR"
                /\ lastError.status = Rejected.status
                /\ lastError.details = Rejected.data

\* a 502 with axios' own code was classified Server
C10_Witness ==
    /\ pc = "classified"
    /\ Rejected.hasResponse
    /\ Rejected.code = "ERR_BAD_REQUEST"
    /\ Rejected.status = 502
    /\ lastError.name = "ServerError"

\* the transport codes handleError tests
TimeoutCodes == {"ECONNABORTED", "ETIMEDOUT"}
ConnectionCodes == {"ENOTFOUND", "ECONNREFUSED"}

\* C11: classification has a fixed precedence: a timeout code gives Timeout and
\* a connection code gives Network whether or not a response with a status is
\* present; without such a code a failure without a response is Network; only
\* a failure with a response and without such a code is classified by status.
C11_Precedence ==
    pc = "classified" =>
        /\ Rejected.code \in TimeoutCodes => lastError = TimeoutError("Request timeout")
        /\ Rejected.code \in ConnectionCodes =>
                lastError = NetworkError("Network connection error")
        /\ (Rejected.code \notin TimeoutCodes \cup ConnectionCodes /\ ~Rejected.hasResponse) =>
                /\ lastError.name = "NetworkError"
                /\ lastError.code = "NETWORK_ERROR"
        /\ (Rejected.code \notin TimeoutCodes \cup ConnectionCodes /\ Rejected.hasResponse) =>
                lastError.name \notin {"NetworkError", "TimeoutError"}

\* a failure with code ECONNABORTED and a 401 response was classified Timeout
C11_Witness ==
    /\ pc = "classified"
    /\ Rejected.code = "ECONNABORTED"
    /\ Rejected.hasResponse
    /\ Rejected.status = 401
    /\ lastError.name = "TimeoutError"

\* C12: the classifier is total: whatever the shape of the failure, it yields
\* one error of the taxonomy (HashubVectorError or one of its subclasses).
C12_ClassifierTotal ==
    pc = "classified" => lastError.name \in SdkErrorNames

\* C13: a RateLimit error carries the retry-after header as integer seconds when
\* the 429 response has the header, and no value when it has none; no error of
\* another kind carries a retry-after value.
C13_RetryAfterSeconds ==
    pc = "classified" =>
        /\ (lastError.name = "RateLimitError" /\ Rejected.retryAfterHeader # <<>>) =>
                lastError.retryAfter \in Nat
        /\ (lastError.name = "RateLimitError" /\ Rejected.retryAfterHeader = <<>>) =>
                lastError.retryAfter = NoRetryAfter
        /\ (lastError.name = "RateLimitError" /\ Rejected.retryAfterHeader = <<"3", "0">>) =>
                lastError.retryAfter = 30
        /\ lastError.name # "RateLimitError" => lastError.retryAfter = NoRetryAfter

\* C14: the message of an error classified from an HTTP response is the body's
\* message field if it has one, else its error field, else 'Unknown error'.
C14_MessageExtraction ==
    (/\ pc = "classified"
     /\ Rejected.hasResponse
     /\ Rejected.code \notin TimeoutCodes \cup ConnectionCodes)
    =>
        lastError.message =
            IF Rejected.data.message # "" THEN Rejected.data.message
            ELSE IF Rejected.data.error # "" THEN Rejected.data.error
            ELSE "Unknown error"

\* a 401 whose body has both fields was classified with the message field
C14_Witness ==
    /\ pc = "classified"
    /\ Rejected.code = ""
    /\ Rejected.status = 401
    /\ Rejected.data = [present |-> TRUE, message |-> "bad key", error |-> "denied"]
    /\ lastError.name = "AuthenticationError"
    /\ lastError.message = "bad key"

\* the code and the status of each kind of the taxonomy
KindTable ==
    {<<"AuthenticationError", "AUTHENTICATION_ERROR", 401>>,
     <<"RateLimitError", "RATE_LIMIT_ERROR", 429>>,
     <<"QuotaExceededError", "QUOTA_EXCEEDED_ERROR", 402>>,
     <<"ValidationError", "VALIDATION_ERROR", 400>>,
     <<"ServerError", "SERVER_ERROR", 500>>,
     <<"NetworkError", "NETWORK_ERROR", NoStatus>>,
     <<"TimeoutError", "TIMEOUT_ERROR", NoStatus>>}

\* C19: an error of one of the seven kinds carries the code and the status of
\* its kind whatever its message, and its name is one of the taxonomy.
C19_StableCodeAndStatus ==
    pc = "classified" =>
        /\ lastError.name \in SdkErrorNames
        /\ lastError.name # "HashubVectorError" =>
                <<lastError.name, lastError.code, lastError.status>> \in KindTable

\* a 503 with the message 'denied' is a ServerError with code SERVER_ERROR and status 500
C19_Witness ==
    /\ pc = "classified"
    /\ Rejected.status = 503
    /\ lastError.message = "denied"
    /\ lastError.name = "ServerError"
    /\ lastError.code = "SERVER_ERROR"
    /\ lastError.status = 500

----------------------------------------------------------------------------
(* Properties of the constructor and the operations, checked under SpecClient *)

Constructed == pc # "new"

\* C15: of baseUrl, timeout, maxRetries and headers the constructed client holds
\* the caller's value for every key the caller passed (an explicit undefined is
\* a value passed) and the documented default for every other key; from apiKey
\* alone it holds exactly the defaults.
C15_ConfigResolution ==
    Constructed =>
        /\ config.baseUrl =
                IF "baseUrl" \in DOMAIN input THEN input.baseUrl
                ELSE "https://api.vector.hashub.dev"
        /\ config.timeout = IF "timeout" \in DOMAIN input THEN input.timeout ELSE 30000
        /\ config.maxRetries = IF "maxRetries" \in DOMAIN input THEN input.maxRetries ELSE 3
        /\ config.headers = IF "headers" \in DOMAIN input THEN input.headers ELSE <<>>
        /\ config.apiKey = input.apiKey
        /\ DOMAIN config = {"apiKey", "baseUrl", "timeout", "maxRetries", "headers"}

\* a client constructed with maxRetries and headers only holds them and the
\* default baseUrl and timeout
C15_Witness ==
    /\ Constructed
    /\ DOMAIN input = {"apiKey", "maxRetries", "headers"}
    /\ config.maxRetries = 2
    /\ config.headers = ("X-Trace" :> "1")
    /\ config.timeout = 30000
    /\ config.baseUrl = "https://api.vector.hashub.dev"

\* C16: every request a client has issued carries the header Authorization:
\* Bearer <apiKey> of the client's apiKey.
C16_BearerOnEveryRequest ==
    \A i \in 1..Len(sent) :
        /\ "Authorization" \in DOMAIN sent[i].headers
        /\ sent[i].headers["Authorization"] = "Bearer " \o input.apiKey

\* C17: a constructed client's config has a non-empty apiKey, a timeout > 0 and
\* a maxRetries >= 1.
C17_ConfigWellFormed ==
    Constructed =>
        /\ config.apiKey # ""
        /\ config.timeout > 0
        /\ config.maxRetries >= 1

\* the method and the path of each operation
Routes ==
    {<<"vectorize", "POST", "/vectorize">>,
     <<"vectorizeBatch", "POST", "/vectorize-batch">>,
     <<"similarity", "POST", "/similarity">>,
     <<"createEmbedding", "POST", "/embeddings">>,
     <<"getUsage", "GET", "/usage">>,
     <<"getDetailedUsage", "GET", "/usage">>,
     <<"getModels", "GET", "/models">>}

\* C18: every request of a call, a retry included, goes to the method and path
\* of the call's operation, and a call that returns returns the body of its
\* last response, or for getModels the models field of that body.
C18_FixedRoutes ==
    /\ \A i \in 1..Len(sent) : <<op.name, sent[i].method, sent[i].url>> \in Routes
    /\ pc = "returned" =>
        LET body == history[Len(history)].data IN
        IF op.name = "getModels"
        THEN /\ body = "body1" => result = "models1"
             /\ body = "body2" => result = "models2"
        ELSE result = body

\* getModels returned the models of the response to its second request
C18_Witness ==
    /\ pc = "returned"
    /\ op.name = "getModels"
    /\ Len(sent) = 2
    /\ sent[2].method = "GET"
    /\ sent[2].url = "/models"
    /\ history[2].data = "body1"
    /\ result = "models1"

----------------------------------------------------------------------------
(* Properties of two invocations in flight, checked under SpecConcurrent *)

\* where an invocation running alone on this client stands when makeRequest is
\* entered for the operation `name`
SoloHead(s, a, err) ==
    IF LoopCondition(a)
    THEN [s EXCEPT !.attempt = a, !.pc = "awaitResponse", !.requests = @ + 1]
    ELSE [s EXCEPT !.attempt = a, !.pc = "raised", !.thrown = err]

SoloStart ==
    SoloHead([pc |-> "idle", attempt |-> 0, lastError |-> Undefined, requests |-> 0,
              slept |-> <<>>, result |-> NoResult, thrown |-> Undefined],
             0, Undefined)

\* ... when its backoff timer, if it waits for one, has fired
SoloTimer(s) == IF s.pc = "sleeping" THEN SoloHead(s, s.attempt + 1, s.lastError) ELSE s

\* ... when its awaited request has completed with `outcome`
SoloStep(s, name, outcome) ==
    IF outcome.ok
    THEN [s EXCEPT !.pc = "returned", !.result = OperationResult(name, outcome.data)]
    ELSE LET error == handleError(outcome.error) IN
         IF IsClientError(error)
         THEN [s EXCEPT !.pc = "raised", !.lastError = error, !.thrown = error]
         ELSE IF RetriesRemain(s.attempt)
         THEN [s EXCEPT !.pc = "sleeping", !.lastError = error,
                        !.slept = Append(@, BackoffDelay(s.attempt))]
         ELSE SoloHead([s EXCEPT !.lastError = error], s.attempt + 1, error)

\* ... when the first n outcomes of h have completed its requests one by one
RECURSIVE Solo(_, _, _)
Solo(h, name, n) ==
    IF n = 0 THEN SoloStart ELSE SoloStep(SoloTimer(Solo(h, name, n - 1)), name, h[n])

\* what the claim is about in a frame: position, attempt counter, last error,
\* number of requests, backoff delays and outcome
Progress(f) ==
    [pc |-> f.pc, attempt |-> f.attempt, lastError |-> f.lastError,
     requests |-> f.requests, slept |-> f.slept, result |-> f.result,
     thrown |-> f.thrown]

\* the invocation of frame f stands where it would stand had it run alone on
\* the client and met the attempt outcomes of its own history
AsAlone(f) ==
    IF f.pc = "idle"
    THEN f = IdleFrame
    ELSE LET s == Solo(f.history, f.op.name, Len(f.history)) IN
         /\ Progress(f) \in {s, SoloTimer(s)}
         /\ Len(f.sent) = f.requests

\* C20: in every interleaving of two invocations on one client, each one's
\* attempt counter, last error, number of requests, backoff delays and outcome
\* are those of an invocation running alone with the same attempt outcomes and
\* the same config.
C20_CallsIndependent ==
    /\ AsAlone(Frame)
    /\ other.pc # "none" => AsAlone(other)

\* one invocation raised the AuthenticationError of its second request while
\* the other, suspended and resumed in between, returned from its third
C20_Witness ==
    /\ other.pc # "none"
    /\ pc = "raised"
    /\ requests = 2
    /\ thrown.name = "AuthenticationError"
    /\ other.pc = "returned"
    /\ other.requests = 3
    /\ other.slept = <<1000, 2000>>
    /\ op.name # other.op.name

----------------------------------------------------------------------------
(* Properties of the attempts of one call, checked under SpecClient and Spec *)

\* the parameters operation o.name passes to makeRequest for o.request
ArgsFor(o) ==
    CASE o.name = "vectorize" -> vectorizeArgs(o.request)
      [] o.name = "vectorizeBatch" -> vectorizeBatchArgs(o.request)
      [] o.name = "similarity" -> similarityArgs(o.request)
      [] o.name = "getModels" -> getModelsArgs(o.request)
      [] o.name = "getUsage" -> getUsageArgs(o.request)
      [] o.name = "getDetailedUsage" -> getDetailedUsageArgs(o.request)
      [] o.name = "createEmbedding" -> createEmbeddingArgs(o.request)
      [] OTHER -> NoArgs

\* C21: every request of a call has the method, path, body and query parameters
\* of the first one, which are those the operation was invoked with, whatever
\* the earlier attempts failed with; and across the attempts the config, the
\* axios instance and the parameters of makeRequest stay as they were.
C21_AttemptsShareRequest ==
    Constructed =>
        /\ config = ResolveConfig(input)
        /\ client = CreateClient(config)
        /\ args = ArgsFor(op)
        /\ Len(sent) = requests
        /\ \A i \in 1..Len(sent) :
            /\ sent[i] = sent[1]
            /\ sent[i].method = args.method
            /\ sent[i].url = args.endpoint
            /\ sent[i].data = args.data
            /\ sent[i].params = args.params

\* the third request of a vectorize call, after a timeout and a 503, carries
\* the text and the model of the call
C21_Witness ==
    /\ op.name = "vectorize"
    /\ Len(sent) = 3
    /\ history[1].error.code = "ECONNABORTED"
    /\ history[2].error.status = 503
    /\ sent[3].method = "POST"
    /\ sent[3].url = "/vectorize"
    /\ sent[3].data.text = "hello"
    /\ sent[3].data.model = "gte_base"
    /\ sent[3].data.chunk_size = 512

\* the classified error of the attempt that completes in this step
Completing == handleError(history'[Len(history')].error)

\* C22: the step in which an attempt fails as Authentication, QuotaExceeded or
\* Validation, after any earlier retryable failures, raises that attempt's own
\* error at once: no timer is set, no request is issued, whatever attempts
\* remain; and a call that has raised takes no further step.
C22_TerminalNeverRetried ==
    [][/\ pc # "raised"
       /\ (/\ pc = "awaitResponse"
           /\ Len(history') = Len(history) + 1
           /\ ~history'[Len(history')].ok
           /\ Completing.name \in NonRetryableKinds)
          => /\ pc' = "raised"
             /\ thrown' = Completing
             /\ lastError' = Completing
             /\ slept' = slept
             /\ requests' = requests
             /\ sent' = sent
             /\ attempt' = attempt]_vars

\* a 400 on the third of four permitted attempts, after a 503 and a timeout:
\* the ValidationError is raised after two sleeps and three requests
C22_Witness ==
    /\ pc = "raised"
    /\ config.maxRetries = 4
    /\ Len(history) = 3
    /\ ErrorOf(1).name = "ServerError"
    /\ ErrorOf(2).name = "TimeoutError"
    /\ history[3].error.status = 400
    /\ thrown.name = "ValidationError"
    /\ requests = 3
    /\ slept = <<1000, 2000>>
    /\ attempt = 2

\* C23: every request of getDetailedUsage(from, to) has the query parameter from
\* exactly when from is non-empty and to exactly when to is non-empty, each with
\* the caller's value, no other parameter, and no body.
C23_UsageQuery ==
    op.name = "getDetailedUsage" =>
        \A i \in 1..Len(sent) :
            LET params == sent[i].params IN
            /\ DOMAIN params \subseteq {"from", "to"}
            /\ "from" \in DOMAIN params <=> op.request.from # ""
            /\ "to" \in DOMAIN params <=> op.request.to # ""
            /\ "from" \in DOMAIN params => params.from = op.request.from
            /\ "to" \in DOMAIN params => params.to = op.request.to
            /\ sent[i].data = <<>>
            /\ sent[i].method = "GET"

\* getDetailedUsage(undefined, '2024-01-31') has sent to alone, twice
C23_Witness ==
    /\ op.name = "getDetailedUsage"
    /\ op.request.from = ""
    /\ Len(sent) = 2
    /\ DOMAIN sent[2].params = {"to"}
    /\ sent[2].params.to = "2024-01-31"

DefaultingOperations == {"vectorize", "vectorizeBatch", "similarity"}

\* C24: every request of vectorize, vectorizeBatch and similarity carries the
\* caller's model, or e5_base when the caller gave none (or an empty one); every
\* request of createEmbedding carries the caller's model as it is.
C24_ModelField ==
    \A i \in 1..Len(sent) :
        /\ op.name \in DefaultingOperations =>
            sent[i].data.model =
                IF op.request.model = "" THEN "e5_base" ELSE op.request.model
        /\ op.name = "createEmbedding" => sent[i].data.model = op.request.model

\* similarity without a model has been sent twice with e5_base
C24_Witness ==
    /\ op.name = "similarity"
    /\ op.request.model = ""
    /\ Len(sent) = 2
    /\ sent[1].data.model = "e5_base"
    /\ sent[2].data.model = "e5_base"
    /\ sent[2].data.text1 = "a"

\* C25: the timer set after the i-th failed attempt is of 2^(i-1) * 1000 ms
\* whatever the failure was: after a RateLimit failure with attempts left the
\* executor sleeps that long too, and not the seconds of its retry-after.
C25_DelayIgnoresRetryAfter ==
    /\ \A i \in 1..Len(slept) : Failed(i) /\ slept[i] = Pow2(i - 1) * 1000
    /\ \A i \in 1..Len(history) :
        (Failed(i) /\ ErrorOf(i).name = "RateLimitError" /\ i < config.maxRetries) =>
            /\ Len(slept) >= i
            /\ slept[i] = Pow2(i - 1) * 1000
            /\ ErrorOf(i).retryAfter > 0 => slept[i] # ErrorOf(i).retryAfter * 1000

\* after a 503 and then a 429 with retry-after: 30 the executor sleeps 1000 ms
\* and 2000 ms
C25_Witness ==
    /\ pc = "sleeping"
    /\ Len(history) = 2
    /\ ErrorOf(1).name = "ServerError"
    /\ ErrorOf(2).name = "RateLimitError"
    /\ ErrorOf(2).retryAfter = 30
    /\ lastError.retryAfter = 30
    /\ slept = <<1000, 2000>>

\* the number of failed attempts among the first n of the call
RECURSIVE FailedAttempts(_)
FailedAttempts(n) ==
    IF n = 0 THEN 0 ELSE FailedAttempts(n - 1) + (IF Failed(n) THEN 1 ELSE 0)

\* the time slept in the first n sleeps of the call, in ms
RECURSIVE TotalSlept(_)
TotalSlept(n) == IF n = 0 THEN 0 ELSE TotalSlept(n - 1) + slept[n]

\* all the permitted attempts of the call were made and failed
AllAttemptsFailed ==
    /\ config.maxRetries >= 1
    /\ pc = "raised"
    /\ Len(history) = config.maxRetries

\* C26 as stated: a call that has ended with k failed attempts has slept at most
\* k - 1 times, and after maxRetries failed attempts the time slept is
\* (2^(maxRetries - 1) - 1) * 1000 ms.
C26_SleepsBelowFailedAttempts ==
    /\ (Terminated /\ FailedAttempts(Len(history)) >= 1) =>
            Len(slept) <= FailedAttempts(Len(history)) - 1
    /\ AllAttemptsFailed =>
            TotalSlept(Len(slept)) = (Pow2(config.maxRetries - 1) - 1) * 1000

\* C26, amended: a call that has ended after k attempts has slept exactly k - 1
\* times, one sleep between two attempts and none after the last: a call that
\* raised after k failed attempts has slept k - 1 times, a call that returned
\* after k failed attempts has slept k times; and after maxRetries failed
\* attempts the time slept is (2^(maxRetries - 1) - 1) * 1000 ms.
C26_SleepsBelowAttempts ==
    /\ Len(slept) <= requests
    /\ (Terminated /\ requests >= 1) => Len(slept) = requests - 1
    /\ (pc = "raised" /\ Len(history) >= 1) => Len(slept) = FailedAttempts(Len(history)) - 1
    /\ pc = "returned" => Len(slept) = FailedAttempts(Len(history))
    /\ AllAttemptsFailed =>
            /\ Len(slept) = config.maxRetries - 1
            /\ TotalSlept(Len(slept)) = (Pow2(config.maxRetries - 1) - 1) * 1000

\* four failed attempts of four: three sleeps, 7000 ms in all
C26_Witness ==
    /\ AllAttemptsFailed
    /\ config.maxRetries = 4
    /\ FailedAttempts(Len(history)) = 4
    /\ Len(slept) = 3
    /\ TotalSlept(3) = 7000

----------------------------------------------------------------------------
(* The status of a classified error, checked under SpecClassify *)

\* the kinds of failures without an HTTP status: they carry none
StatuslessKinds == {"NetworkError", "TimeoutError"}

\* C28: a classified error of a kind that carries a status carries the status
\* of the failed response, except a ServerError: for a response of 500, 502, 503
\* or 504 it carries 500.
C28_StatusOfResponse ==
    pc = "classified" =>
        /\ lastError.name \in StatuslessKinds => lastError.status = NoStatus
        /\ lastError.name \notin StatuslessKinds =>
            /\ Rejected.hasResponse
            /\ IF lastError.name = "ServerError"
               THEN /\ lastError.status = 500
                    /\ Rejected.status \in {500, 502, 503, 504}
               ELSE lastError.status = Rejected.status

\* a 502 is a ServerError of status 500
C28_Witness ==
    /\ pc = "classified"
    /\ Rejected.status = 502
    /\ Rejected.code = "ERR_BAD_REQUEST"
    /\ lastError.name = "ServerError"
    /\ lastError.status = 500

----------------------------------------------------------------------------
(* Termination of a call, checked under SpecFair *)

InFlight == pc \in {"awaitResponse", "sleeping"}

\* the largest number of sleeps of a call: one between two permitted attempts
MostSleeps == IF config.maxRetries >= 1 THEN config.maxRetries - 1 ELSE 0

\* C29: while requests settle and timers fire, a call in flight returns or
\* raises; it issues at most maxRetries requests and sleeps at most
\* maxRetries - 1 times (never, for maxRetries 0); its counter never exceeds
\* maxRetries, never decreases and is one more at every request after the first.
C29_Terminates ==
    /\ [](/\ requests <= config.maxRetries
          /\ Len(slept) <= MostSleeps
          /\ attempt <= config.maxRetries
          /\ attempt >= 0)
    /\ [][/\ attempt' >= attempt
          /\ (requests >= 1 /\ requests' = requests + 1) => attempt' = attempt + 1
          /\ Terminated => pc' = pc]_vars
    /\ (InFlight ~> Terminated)

\* a call of a client with maxRetries 3 ended after three requests and two
\* sleeps with the counter at 3
C29_Witness ==
    /\ pc = "raised"
    /\ config.maxRetries = 3
    /\ requests = 3
    /\ Len(slept) = 2
    /\ attempt = 3

====
